---- MODULE Spec2Model ----
(***************************************************************************)
(* Model of the schema parser (src/unnamed/part_001): class Parser with    *)
(* its combinators, ArrayParser, ObjectParser and the compiler parse().    *)
(*                                                                         *)
(* JavaScript values are tagged records.  A Parser object lives in `heap`; *)
(* what `new Parser(...)` hands back is not the object but a Proxy around  *)
(* its bound call method (lines 9-11), modelled as a value of tag "proxy"  *)
(* carrying the heap index of the object.                                  *)
(***************************************************************************)
EXTENDS Integers, Sequences, FiniteSets, TLC

\* The caller may build at most MaxParsers Parser objects.
MaxParsers == 3
\* Input sequences have at most MaxLen elements.
MaxLen == 2

----------------------------------------------------------------------------
(* JavaScript values *)

Undef == [t |-> "undefined"]
Null == [t |-> "null"]
Num(n) == [t |-> "number", n |-> n]
Str == [t |-> "string"]
Arr(s) == [t |-> "array", items |-> s]
Obj(f) == [t |-> "object", fields |-> f]
Fn(name) == [t |-> "function", name |-> name]
Proxy(i) == [t |-> "proxy", id |-> i]

EmptyFields == [k \in {} |-> Undef]

\* object[key]: a missing property reads as undefined
Get(object, key) == IF key \in DOMAIN object.fields THEN object.fields[key] ELSE Undef

\* The field names used by schemas and inputs, in property-enumeration order.
KeyOrder == <<"a", "b">>
Keys == {KeyOrder[i] : i \in 1..Len(KeyOrder)}

\* The enumeration order of the own keys of a mapping.
KeysOf(f) == SelectSeq(KeyOrder, LAMBDA k : k \in DOMAIN f)

----------------------------------------------------------------------------
(* Outcomes: a returned value or a thrown Error, with the calls of          *)
(* caller-supplied functions made on the way (oldest first).               *)

Ok(v, log) == [ok |-> TRUE, val |-> v, err |-> "none", detail |-> "none", log |-> log]
Fail(e, d, log) == [ok |-> FALSE, val |-> Undef, err |-> e, detail |-> d, log |-> log]
WithLog(r, log) == [r EXCEPT !.log = log \o r.log]

\* Caller-supplied leaf transforms.
\*   inc  : number n -> n + 1, throws on anything else (not idempotent)
\*   drop : returns undefined for every input
\*   zero : returns 0 for every input
Leaves == {"inc", "drop"}
Fallbacks == {"inc", "zero"}

ApplyLeaf(name, v) ==
  LET entry == <<[fn |-> name, arg |-> v]>>
  IN CASE name = "inc" -> IF v.t = "number" THEN Ok(Num(v.n + 1), entry)
                          ELSE Fail("LeafTransformError", name, entry)
       [] name = "drop" -> Ok(Undef, entry)
       [] name = "zero" -> Ok(Num(0), entry)

\* Caller-supplied predicates (validate).
Preds == {"isOne"}

ApplyPred(name, v) ==
  CASE name = "isOne" -> v = Num(1)

----------------------------------------------------------------------------
(* Calling things.  A function value F is a caller-supplied function, a    *)
(* Parser proxy, or one of the closures the classes create:               *)
(*   parseFn    (line 30)     validateFn (lines 34-40)                      *)
(*   orFn       (lines 44-50) arrayFn    (lines 57-62)                      *)
(*   objectFn   (lines 71-78)                                               *)

IsArray(v) == v.t = "array"
IsPlainObject(v) == v.t = "object"

\* validate with the test of line 36 inverted
ValidateCheckInverted(r, pred) ==
  IF ~r.ok THEN r
  ELSE LET log == Append(r.log, [fn |-> pred, arg |-> r.val])
       IN IF ApplyPred(pred, r.val) THEN Fail("ValidationFailed", pred, log)
          ELSE Ok(r.val, log)

\* validate, lines 36-39: r is the outcome of this(value)
ValidateCheck(r, pred) ==
  IF ~r.ok THEN r
  ELSE LET log == Append(r.log, [fn |-> pred, arg |-> r.val])
       IN IF ~ApplyPred(pred, r.val) THEN Fail("ValidationFailed", pred, log)
          ELSE Ok(r.val, log)

\* lodash.defaults(picked, object), line 77: a key of object is copied into
\* picked where picked has no value for it (missing or undefined); the keys
\* picked already has stay, whatever their value.
Defaults(picked, object) ==
  [k \in DOMAIN picked \cup DOMAIN object |->
     IF k \in DOMAIN picked /\ picked[k] # Undef THEN picked[k]
     ELSE IF k \in DOMAIN object THEN object[k]
     ELSE Undef]

RECURSIVE ApplyFunc(_, _, _), Parser_call(_, _, _), MapItems(_, _, _, _, _),
          MapValues(_, _, _, _, _, _)

\* or with the fallback fed the caught outcome's value instead of the raw input
OrCatchStale(h, r, fb, value) ==
  IF r.ok THEN r ELSE WithLog(ApplyFunc(h, fb, r.val), r.log)

\* or, lines 45-49: the fallback runs only inside the catch
OrCatch(h, r, fb, value) ==
  IF r.ok THEN r ELSE WithLog(ApplyFunc(h, fb, value), r.log)

\* array.map(func), line 61: elements i..Len(items), acc holds the results so far;
\* a throw leaves map at once
MapItems(h, func, items, i, acc) ==
  IF i > Len(items) THEN acc
  ELSE LET r == ApplyFunc(h, func, items[i])
       IN IF ~r.ok THEN WithLog(r, acc.log)
          ELSE MapItems(h, func, items, i + 1,
                        Ok(Arr(Append(acc.val.items, r.val)), acc.log \o r.log))

\* lodash.mapValues(keyToFunc, (func, key) => func(object[key])), line 76
MapValues(h, keyToFunc, object, ks, i, acc) ==
  IF i > Len(ks) THEN acc
  ELSE LET key == ks[i]
           r == ApplyFunc(h, keyToFunc[key], Get(object, key))
       IN IF ~r.ok THEN WithLog(r, acc.log)
          ELSE MapValues(h, keyToFunc, object, ks, i + 1,
                         Ok(Obj((key :> r.val) @@ acc.val.fields), acc.log \o r.log))

\* ArrayParser's transform mapping from the second element on
ArrayFnSkipFirst(h, func, array) ==
  IF ~IsArray(array) THEN Fail("TypeMismatch", "array", <<>>)
  ELSE MapItems(h, func, array.items, 2, Ok(Arr(<<>>), <<>>))

\* ArrayParser's transform, lines 57-62
ArrayFn(h, func, array) ==
  IF ~IsArray(array) THEN Fail("TypeMismatch", "array", <<>>)
  ELSE MapItems(h, func, array.items, 1, Ok(Arr(<<>>), <<>>))

\* ObjectParser's transform, lines 71-78
ObjectFn(h, keyToFunc, object) ==
  IF ~IsPlainObject(object) THEN Fail("TypeMismatch", "object", <<>>)
  ELSE LET picked == MapValues(h, keyToFunc, object, KeysOf(keyToFunc), 1,
                               Ok(Obj(EmptyFields), <<>>))
       IN IF ~picked.ok THEN picked
          ELSE Ok(Obj(Defaults(picked.val.fields, object.fields)), picked.log)

ApplyFunc(h, F, v) ==
  CASE F.t = "function" -> ApplyLeaf(F.name, v)
    [] F.t = "proxy" -> Parser_call(h, F.id, v)
    [] F.t = "parseFn" ->
         LET r == ApplyFunc(h, F.self, v)
         IN IF ~r.ok THEN r ELSE WithLog(ApplyFunc(h, F.func, r.val), r.log)
    [] F.t = "validateFn" -> ValidateCheck(ApplyFunc(h, F.self, v), F.pred)
    [] F.t = "orFn" -> OrCatch(h, ApplyFunc(h, F.self, v), F.func, v)
    [] F.t = "arrayFn" -> ArrayFn(h, F.func, v)
    [] F.t = "objectFn" -> ObjectFn(h, F.keyToFunc, v)

\* Parser.call, lines 14-27
Parser_call(h, id, v) ==
  LET this == h[id]
      value == IF v = Undef THEN this.default ELSE v
  IN IF value = Undef
     THEN IF this.required THEN Fail("MissingRequiredValue", "undefined", <<>>)
          ELSE Ok(Undef, <<>>)
     ELSE ApplyFunc(h, this.func, value)

----------------------------------------------------------------------------
(* Building parsers *)

\* Outcome of a construction: the proxy returned (val) and the heap after it.
Built(h, v, log) ==
  [ok |-> TRUE, val |-> v, err |-> "none", detail |-> "none", log |-> log, heap |-> h]
Thrown(h, e, d, log) ==
  [ok |-> FALSE, val |-> Undef, err |-> e, detail |-> d, log |-> log, heap |-> h]

\* options = {} (lines 4 and 84): required = false, no default
NoOptions == [required |-> FALSE, default |-> Undef]

\* Parser.constructor, lines 4-12.  The object is appended to the heap and the
\* Proxy around its bound call is returned.  Field raw is a history field: the
\* _default argument, which the object itself does not keep.
NewParser(h, func, options) ==
  LET d == IF options.default # Undef THEN ApplyFunc(h, func, options.default)
           ELSE Ok(Undef, <<>>)
      this == [func |-> func, required |-> options.required, default |-> d.val,
               raw |-> options.default]
  IN IF ~d.ok THEN Thrown(h, d.err, d.detail, d.log)
     ELSE Built(Append(h, this), Proxy(Len(h) + 1), d.log)

\* [[GetPrototypeOf]] followed to the end.  A Proxy without a getPrototypeOf
\* trap answers with its target's prototype; the target made at line 9 is the
\* bound function this.call.bind(this), whose prototype is Function.prototype.
PrototypeChain(v) ==
  CASE v.t = "proxy" -> <<"Function.prototype", "Object.prototype">>
    [] v.t = "function" -> <<"Function.prototype", "Object.prototype">>
    [] v.t = "array" -> <<"Array.prototype", "Object.prototype">>
    [] v.t = "object" -> <<"Object.prototype">>
    [] OTHER -> <<>>

\* schema instanceof Parser, line 85
InstanceOfParser(v) ==
  \E i \in 1..Len(PrototypeChain(v)) : PrototypeChain(v)[i] = "Parser.prototype"

\* lodash.isFunction, line 89: a Proxy with a callable target is a function
IsFunction(v) == v.t \in {"function", "proxy"}

\* typeof schema, line 101
TypeOf(v) ==
  CASE v.t \in {"function", "proxy"} -> "function"
    [] v.t \in {"null", "array", "object"} -> "object"
    [] OTHER -> v.t

\* schema[0], line 94
First(schema) == IF Len(schema.items) = 0 THEN Undef ELSE schema.items[1]

RECURSIVE parse(_, _, _), parseValues(_, _, _, _, _)

\* lodash.mapValues(schema, v => parse(v)), line 98
parseValues(h, fields, ks, i, acc) ==
  IF i > Len(ks) THEN acc
  ELSE LET r == parse(acc.heap, fields[ks[i]], NoOptions)
       IN IF ~r.ok THEN [r EXCEPT !.log = acc.log \o r.log]
          ELSE parseValues(h, fields, ks, i + 1,
                             Built(r.heap, (ks[i] :> r.val) @@ acc.val, acc.log \o r.log))

\* ArrayParser.constructor, lines 55-65
NewArrayParser(h, func, options) ==
  NewParser(h, [t |-> "arrayFn", func |-> func], options)

\* ObjectParser.constructor, lines 69-81
NewObjectParser(h, keyToFunc, options) ==
  NewParser(h, [t |-> "objectFn", keyToFunc |-> keyToFunc], options)

\* parse, lines 84-102
parse(h, schema, options) ==
  IF InstanceOfParser(schema) THEN Built(h, schema, <<>>)
  ELSE IF IsFunction(schema) THEN NewParser(h, schema, options)
  ELSE IF IsArray(schema) THEN
    LET e == parse(h, First(schema), NoOptions)
    IN IF ~e.ok THEN e
       ELSE LET r == NewArrayParser(e.heap, e.val, options)
            IN [r EXCEPT !.log = e.log \o r.log]
  ELSE IF IsPlainObject(schema) THEN
    LET m == parseValues(h, schema.fields, KeysOf(schema.fields), 1,
                           Built(h, EmptyFields, <<>>))
    IN IF ~m.ok THEN m
       ELSE LET r == NewObjectParser(m.heap, m.val, options)
            IN [r EXCEPT !.log = m.log \o r.log]
  ELSE Thrown(h, "UnsupportedSchemaType", TypeOf(schema), <<>>)

\* Parser.parse, lines 29-31
Parser_parse(h, self, func) ==
  NewParser(h, [t |-> "parseFn", self |-> self, func |-> func], NoOptions)

\* Parser.validate, lines 33-41
Parser_validate(h, self, pred) ==
  NewParser(h, [t |-> "validateFn", self |-> self, pred |-> pred], NoOptions)

\* Parser.or, lines 43-51
Parser_or(h, self, func) ==
  NewParser(h, [t |-> "orFn", self |-> self, func |-> func], NoOptions)

----------------------------------------------------------------------------
(* The caller: builds parsers and calls them, one statement at a time *)

VARIABLES
  heap,   \* the Parser objects built so far (this.func, this.required, this.default)
  last    \* the statement just run and how it ended; op = "idle" between statements

vars == <<heap, last>>

\* Options the caller passes: {}, {required: true}, {default: 0},
\* {required: true, default: 0}.
DefaultVals == {Undef, Num(0)}
Options == [required : BOOLEAN, default : DefaultVals]

Parsers(h) == {Proxy(i) : i \in 1..Len(h)}

\* The caller works on one parser tree: the first statement starts it from
\* plain descriptors, every later one builds on the parser built last.
Top(h) == IF Len(h) = 0 THEN {} ELSE {Proxy(Len(h))}

\* Descriptors handed to parse: the recognized shapes and some others.
Fresh ==
  {Fn(f) : f \in Leaves} \cup {Null, Num(0), Str}
  \cup {Arr(<<>>), Obj(EmptyFields)}
  \cup {Arr(<<d>>) : d \in {Fn("inc"), Null}}
  \cup {Arr(<<Fn("inc"), e>>) : e \in {Fn("inc"), Null}}
  \cup {Obj([a |-> d]) : d \in {Fn("inc"), Fn("drop"), Null}}
  \cup {Obj([a |-> Fn("inc"), b |-> e]) : e \in {Fn("inc"), Null}}
  \cup {Obj([a |-> Arr(<<d>>)]) : d \in {Fn("inc"), Str}}
  \cup {Arr(<<Obj([a |-> d])>>) : d \in {Fn("inc"), Num(0)}}
Reusing(h) ==
  Top(h)
  \cup {Arr(<<d>>) : d \in Top(h)}
  \cup {Arr(<<d, Null>>) : d \in Top(h)}
  \cup {Obj([a |-> d]) : d \in Top(h)}
  \cup {Obj([a |-> d, b |-> Fn("inc")]) : d \in Top(h)}
Descriptors(h) == IF Len(h) = 0 THEN Fresh ELSE Reusing(h)

\* Runtime values handed to a parser.
Scalars == {Undef, Null, Num(0), Num(1)}
Items == {Null, Num(0)}
SeqsUpTo(n) == UNION {[1..k -> Items] : k \in 0..n}
Values ==
  Scalars
  \cup {Arr(s) : s \in SeqsUpTo(MaxLen)}
  \cup {Obj(f) : f \in UNION {[K -> Items] : K \in SUBSET Keys}}

Idle ==
  [op |-> "idle", self |-> Undef, arg |-> Undef, options |-> NoOptions,
   ok |-> TRUE, val |-> Undef, err |-> "none", detail |-> "none",
   log |-> <<>>, n0 |-> 0]

Init ==
  /\ heap = <<>>
  /\ last = Idle

Record(op, self, arg, options, r) ==
  [op |-> op, self |-> self, arg |-> arg, options |-> options,
   ok |-> r.ok, val |-> r.val, err |-> r.err, detail |-> r.detail,
   log |-> r.log, n0 |-> Len(heap)]

\* A construction that throws leaves the caller with the heap it had.
Construct(op, self, arg, options, r) ==
  /\ last = Idle
  /\ Len(r.heap) <= MaxParsers
  /\ heap' = IF r.ok THEN r.heap ELSE heap
  /\ last' = Record(op, self, arg, options, r)

\* parse(schema, options)
DoCompile ==
  \E schema \in Descriptors(heap), options \in Options :
    Construct("compile", Undef, schema, options, parse(heap, schema, options))

\* p.parse(func)
DoParse ==
  \E self \in Top(heap) :
    Construct("parse", self, Fn("inc"), NoOptions, Parser_parse(heap, self, Fn("inc")))

\* p.validate(pred)
DoValidate ==
  \E self \in Top(heap), pred \in Preds :
    Construct("validate", self, Fn(pred), NoOptions, Parser_validate(heap, self, pred))

\* p.or(func)
DoOr ==
  \E self \in Top(heap), g \in Fallbacks :
    Construct("or", self, Fn(g), NoOptions, Parser_or(heap, self, Fn(g)))

\* p(value)
DoCall ==
  \E self \in Parsers(heap), value \in Values :
    /\ last = Idle
    /\ last' = Record("call", self, value, NoOptions, ApplyFunc(heap, self, value))
    /\ UNCHANGED heap

\* The caller goes on to its next statement.
Resume ==
  /\ last # Idle
  /\ last' = Idle
  /\ UNCHANGED heap

Next == DoCompile \/ DoParse \/ DoValidate \/ DoOr \/ DoCall \/ Resume

Spec == Init /\ [][Next]_vars

----------------------------------------------------------------------------
(* Properties *)

\* The statement just run was a call p(value).
Called == last.op = "call"
This == heap[last.self.id]

\* The parser a schema position named.  parse wraps a function at line 90; when
\* that function is itself a Parser proxy, the proxy is the parser the schema
\* named and the object built at line 90 stands around it.
Named(q) == IF heap[q.id].func.t = "proxy" THEN heap[q.id].func ELSE q

\* The statement just run called a parser compiled from an object schema that
\* declares field a, with a plain mapping.
CalledObject ==
  /\ Called
  /\ This.func.t = "objectFn"
  /\ "a" \in DOMAIN This.func.keyToFunc
  /\ IsPlainObject(last.arg)
FieldA == heap[Named(This.func.keyToFunc["a"]).id]
\* Every declared field of the schema was given as a plain transform.
PlainFields ==
  \A k \in DOMAIN This.func.keyToFunc :
    heap[This.func.keyToFunc[k].id].func.t = "function"

\* C1: a parser built by compile(f, {default: D}) from a plain transform f
\* returns exactly f(D) for an absent value, and f is not applied again by the
\* call (neither to D nor to the cached result).
C1_CachedDefaultReturned ==
  (/\ Called
   /\ last.arg = Undef
   /\ This.func.t = "function"
   /\ This.raw # Undef)
  => /\ last.ok
     /\ last.val = ApplyLeaf(This.func.name, This.raw).val
     /\ last.log = <<>>

\* C2: compile(p, options) of an already-built Parser p returns p itself and
\* constructs no new Parser.
C2_CompileIsIdentityOnParsers ==
  (last.op = "compile" /\ last.arg.t = "proxy")
  => /\ last.ok
     /\ last.val = last.arg
     /\ Len(heap) = last.n0

\* C3: with schema {a: p}, p an already-built Parser with required = true and
\* no default, a plain mapping without field a fails with MissingRequiredValue.
\* Stated for the parsers p built from a plain transform.
C3_RequiredFieldEnforced ==
  (/\ CalledObject
   /\ FieldA.func.t = "function"
   /\ FieldA.required
   /\ FieldA.default = Undef
   /\ "a" \notin DOMAIN last.arg.fields)
  => /\ ~last.ok
     /\ last.err = "MissingRequiredValue"

\* C4: with schema {a: f}, f built with raw default D, the empty mapping yields
\* a mapping whose field a is present and equals f's cached default.
C4_FieldDefaultFilled ==
  (/\ CalledObject
   /\ FieldA.raw # Undef
   /\ FieldA.default # Undef
   /\ last.arg = Obj(EmptyFields))
  => /\ last.ok
     /\ "a" \in DOMAIN last.val.fields
     /\ last.val.fields["a"] = FieldA.default

\* C5: with schema {a: f}, f optional without default, and an input mapping
\* without field a, the result has exactly the input's field names.
\* Stated for the schemas whose f is a plain transform.
C5_AbsentFieldNotAdded ==
  (/\ CalledObject
   /\ DOMAIN This.func.keyToFunc = {"a"}
   /\ PlainFields
   /\ ~FieldA.required
   /\ FieldA.default = Undef
   /\ "a" \notin DOMAIN last.arg.fields
   /\ last.ok)
  => DOMAIN last.val.fields = DOMAIN last.arg.fields

\* What each declared field parses to on the input of the call.
ParsedField(k) == ApplyFunc(heap, This.func.keyToFunc[k], Get(last.arg, k))
Replaced == {k \in DOMAIN This.func.keyToFunc : ParsedField(k).val # Undef}

\* C6: when no field parser fails, the result is the input with each declared
\* field whose parsed value is not absent replaced by that value, and every
\* other field of the input carried over unchanged.  Stated for the schemas
\* whose fields are plain transforms.
C6_OpenMerge ==
  (/\ Called
   /\ This.func.t = "objectFn"
   /\ PlainFields
   /\ IsPlainObject(last.arg)
   /\ \A k \in DOMAIN This.func.keyToFunc : ParsedField(k).ok)
  => /\ last.ok
     /\ last.val = Obj([k \in DOMAIN last.arg.fields \cup Replaced |->
                          IF k \in Replaced THEN ParsedField(k).val
                          ELSE last.arg.fields[k]])

\* The statement just run called a parser built by a combinator on receiver
\* Receiver, with Input.
Input == last.arg
Receiver == This.func.self
Outcome == [ok |-> last.ok, val |-> last.val, err |-> last.err,
            detail |-> last.detail, log |-> last.log]
\* What the receiver does on the input, called directly.
Direct == ApplyFunc(heap, Receiver, Input)
\* What the fallback does on the raw input, after the receiver has failed.
ViaFallback == WithLog(ApplyFunc(heap, This.func.func, Input), Direct.log)
\* An absent input to a parser without default and not required: nothing runs.
Untouched == Ok(Undef, <<>>)

CalledOr == Called /\ This.func.t = "orFn"
\* The receiver was built by compile(f, options) from a plain transform f.
FromTransform == heap[Receiver.id].func.t = "function"

\* C7 (as stated): p.or(g)(v) is g(v) when p(v) fails and p(v), with g never
\* evaluated, when p(v) succeeds, for every v, absent included.
C7_OrFallsBackOnEveryInput ==
  (CalledOr /\ FromTransform) => Outcome = IF Direct.ok THEN Direct ELSE ViaFallback

\* C7 (amended): the same for every v that is not absent; for an absent v,
\* p.or(g)(v) returns absent and evaluates neither p nor g.  Checked for every
\* receiver p, those built by compile(f, options) among them.
C7_OrFallsBackOnPresentInput ==
  CalledOr => Outcome = IF Input = Undef THEN Untouched
                        ELSE IF Direct.ok THEN Direct ELSE ViaFallback

\* C7 witnesses: a present input on which the receiver failed and the
\* fallback's value was returned.
C7_Witness ==
  /\ CalledOr
  /\ FromTransform
  /\ Input # Undef
  /\ ~Direct.ok
  /\ last.ok
  /\ last.val = Num(0)
  /\ Len(last.log) = 2

CalledValidate == Called /\ This.func.t = "validateFn"
\* What validate's contract gives from the receiver's outcome.
Validated ==
  IF ~Direct.ok THEN [ok |-> FALSE, val |-> Undef, err |-> Direct.err]
  ELSE IF ~ApplyPred(This.func.pred, Direct.val)
       THEN [ok |-> FALSE, val |-> Undef, err |-> "ValidationFailed"]
       ELSE [ok |-> TRUE, val |-> Direct.val, err |-> "none"]
Verdict == [ok |-> last.ok, val |-> last.val, err |-> last.err]

\* C8 (as stated): p.validate(pred)(x) runs r = p(x), fails with
\* ValidationFailed when pred(r) is falsy, returns r otherwise and passes a
\* failure of p(x) on, for every x, absent included.
C8_ValidateOnEveryInput ==
  (CalledValidate /\ FromTransform) => Verdict = Validated

\* C8 (amended): the same for every x that is not absent; for an absent x,
\* p.validate(pred)(x) returns absent and runs neither p nor pred.  Checked for
\* every receiver p, those built by compile(f, options) among them.
C8_ValidateOnPresentInput ==
  CalledValidate =>
    IF Input = Undef THEN Outcome = Untouched ELSE Verdict = Validated

\* C8 witness: a present input whose parsed value the predicate rejected.
C8_Witness ==
  /\ CalledValidate
  /\ FromTransform
  /\ Input # Undef
  /\ Direct.ok
  /\ ~last.ok
  /\ last.err = "ValidationFailed"

CalledArray == Called /\ This.func.t = "arrayFn"
Element == This.func.func
\* The parser was built by compile([f]) from a plain transform f, no options.
FromTransformList ==
  /\ heap[Element.id].func.t = "function"
  /\ ~This.required
  /\ This.default = Undef
\* The element parser on each entry of a sequence input.
PerItem == [i \in 1..Len(Input.items) |-> ApplyFunc(heap, Element, Input.items[i])]
Failing == {i \in 1..Len(Input.items) : ~PerItem[i].ok}
FirstFailing == CHOOSE i \in Failing : \A j \in Failing : i <= j
\* What the array contract gives on a sequence input.
Mapped ==
  IF Failing = {}
  THEN [ok |-> TRUE, val |-> Arr([i \in 1..Len(Input.items) |-> PerItem[i].val]),
        err |-> "none"]
  ELSE [ok |-> FALSE, val |-> Undef, err |-> PerItem[FirstFailing].err]
Mismatch == [ok |-> FALSE, val |-> Undef, err |-> "TypeMismatch"]

RECURSIVE Recognized(_)
\* The four descriptor shapes the compiler is specified to accept.
Recognized(d) ==
  \/ d.t \in {"proxy", "function"}
  \/ d.t = "array" /\ Len(d.items) = 1 /\ Recognized(d.items[1])
  \/ d.t = "object" /\ \A k \in DOMAIN d.fields : Recognized(d.fields[k])

\* C10: compile succeeds only for recognized descriptors; for every other one
\* it fails with UnsupportedSchemaType and returns no Parser.  Stated for the
\* first statement of the caller, whose descriptor names no built Parser.
C10_UnrecognizedRejected ==
  (last.op = "compile" /\ last.n0 = 0 /\ ~Recognized(last.arg))
  => /\ ~last.ok
     /\ last.err = "UnsupportedSchemaType"
     /\ Len(heap) = last.n0

====
